---- MODULE Spec2Model ----
(***************************************************************************)
(* Balanced-ternary codec of the N-Radix optical driver                    *)
(* (nradix-driver/src/encoding.c) and the driver state of nrioc.c.         *)
(*                                                                         *)
(* C int is 32 bit two's complement, float is IEEE-754 binary32 and        *)
(* size_t is 64 bit (LP64).  A float is the record [m, e] standing for     *)
(* m * 2^e with 2^23 <= |m| < 2^24, or m = 0 and e = 0.                    *)
(***************************************************************************)
EXTENDS Integers, Sequences, FiniteSets, TLC

VARIABLES
    build,          \* what this build does on signed overflow
    \* one scalar conversion: float_to_balanced_ternary then its inverse
    sc_value, sc_num_trits, sc_trits_null, sc_trits, sc_ret, sc_out, sc_pc,
    \* one pack_trits / unpack_trits round
    pk_in, pk_byte, pk_out, pk_pc,
    \* one calculate_packed_size call
    sz_rows, sz_cols, sz_tpv, sz_size, sz_pc,
    \* one float_matrix_to_ternary call followed by ternary_to_float_matrix:
    \* the arguments,
    mx_rows, mx_cols, mx_tpv, mx_matrix, mx_matrix_null, mx_packed_null,
    mx_packed_size, mx_packed0,
    \* the packed buffer and the position in the calls,
    mx_packed, mx_pc,
    \* the encoder's locals and return value,
    e_i, e_j, e_trits, e_trit_buffer, e_buffer_pos, e_packed_index, e_ret,
    \* the decoder's packed_size, locals, output matrix and return value,
    d_packed_size, d_packed_index, d_unpacked, d_unpack_pos, d_i, d_j,
    d_trits, d_matrix, d_ret,
    \* history: the indices of packed[] stored by the encoder's pack_trits
    \* stores and read by the decoder, in order; whether trits[] or
    \* packed[] was indexed outside its bounds
    h_stores, h_reads, h_scratch_oob, h_packed_oob,
    \* one run of the digit loop of float_to_balanced_ternary on an integer:
    \* k before the loop, num_trits, the trits written, k after the loop
    dg_k, dg_num_trits, dg_trits, dg_residual, dg_pc,
    \* the driver of nrioc.c: the static g_driver, and of the latest call
    \* its name, whether its pointer arguments were NULL, its return value
    \* and g_driver as it was before the call
    g_driver, drv_call, drv_ptr_null, drv_ret, drv_prev

scVars == <<sc_value, sc_num_trits, sc_trits_null, sc_trits, sc_ret, sc_out, sc_pc>>
pkVars == <<pk_in, pk_byte, pk_out, pk_pc>>
szVars == <<sz_rows, sz_cols, sz_tpv, sz_size, sz_pc>>
mxArgs ==
    <<mx_rows, mx_cols, mx_tpv, mx_matrix, mx_matrix_null, mx_packed_null,
      mx_packed_size, mx_packed0>>
encVars ==
    <<e_i, e_j, e_trits, e_trit_buffer, e_buffer_pos, e_packed_index, e_ret>>
decVars ==
    <<d_packed_size, d_packed_index, d_unpacked, d_unpack_pos, d_i, d_j,
      d_trits, d_matrix, d_ret>>
histVars == <<h_stores, h_reads, h_scratch_oob, h_packed_oob>>
mxVars == <<mxArgs, mx_packed, mx_pc, encVars, decVars, histVars>>
dgVars == <<dg_k, dg_num_trits, dg_trits, dg_residual, dg_pc>>
drvVars == <<g_driver, drv_call, drv_ptr_null, drv_ret, drv_prev>>
vars == <<build, dgVars, drvVars, scVars, pkVars, szVars, mxVars>>

\* ------------------------------------------------------------------ bounds
MaxTrits == 20
MaxRows == 3
MaxCols == 3
MaxSizeArg == 5
MaxOffset == 2
MaxSlack == 1
MaxDigits == 5
MaxClock == 2

\* ------------------------------------------------------------- C integers
INT_MAX == 2147483647
INT_MIN == -INT_MAX - 1

Abs(x) == IF x < 0 THEN -x ELSE x
Sign(x) == IF x < 0 THEN -1 ELSE 1

\* C's / and % on int with a positive divisor: truncation toward zero.
CDiv(a, b) == IF a < 0 /\ a % b # 0 THEN (a \div b) + 1 ELSE a \div b
CMod(a, b) == a - b * CDiv(a, b)

\* a + b leaves the range of int (undefined behaviour in C).
AddOverflows(a, b) ==
    \/ (b > 0 /\ a > INT_MAX - b)
    \/ (b < 0 /\ a < INT_MIN - b)

\* a + b reduced modulo 2^32 into the range of int.
AddWrap(a, b) ==
    IF b > 0 /\ a > INT_MAX - b THEN (a - INT_MAX - 1) + (b - INT_MAX - 1)
    ELSE IF b < 0 /\ a < INT_MIN - b THEN (a + INT_MAX + 1) + (b + INT_MAX + 1)
    ELSE a + b

\* x * 3 leaves the range of int.
Mul3Overflows(x) == x > INT_MAX \div 3 \/ x < CDiv(INT_MIN, 3)
Mul3Wrap(x) == AddWrap(AddWrap(x, x), x)

\* What a mode does on signed overflow: two's complement wrap-around (the
\* usual code generation, -fwrapv) or a trap (-ftrapv, sanitizers).
Builds == {"wrap", "trap"}

\* ---------------------------------------------------------- binary32 floats
F(m, e) == [m |-> m, e |-> e]
FZero == F(0, 0)
FOne == F(2^23, -23)
FNegOne == F(-(2^23), -23)

RECURSIVE BitLen(_)
BitLen(a) == IF a = 0 THEN 0 ELSE 1 + BitLen(a \div 2)

\* Round-to-nearest-even of q + r/(2*half), q >= 0, 0 <= r < 2*half.
RoundNearestEven(q, r, half2) ==
    IF 2 * r > half2 \/ (2 * r = half2 /\ q % 2 = 1) THEN q + 1 ELSE q

\* A rounded 24 bit mantissa may have carried into bit 24.
Renormalize(sign, q, e) ==
    IF q = 2^24 THEN F(sign * 2^23, e + 1) ELSE F(sign * q, e)

\* (float)i for an int i.
IntToFloat(i) ==
    IF i = 0 THEN FZero
    ELSE IF i = INT_MIN THEN F(-(2^23), 8)
    ELSE LET a == Abs(i)
             L == BitLen(a)
         IN IF L <= 24 THEN F(Sign(i) * a * 2^(24 - L), L - 24)
            ELSE LET sh == L - 24
                     q  == a \div 2^sh
                     r  == a % 2^sh
                 IN Renormalize(Sign(i), RoundNearestEven(q, r, 2^sh), sh)

\* a * b in binary32: the exact 48 bit product of the mantissas, kept as
\* H * 2^24 + L, rounded to nearest even.
FMul(a, b) ==
    IF a.m = 0 \/ b.m = 0 THEN FZero
    ELSE LET sign == Sign(a.m) * Sign(b.m)
             ma == Abs(a.m)
             mb == Abs(b.m)
             a1 == ma \div 2^12
             a0 == ma % 2^12
             b1 == mb \div 2^12
             b0 == mb % 2^12
             mid == a1 * b0 + a0 * b1
             low == (mid % 2^12) * 2^12 + a0 * b0
             H == a1 * b1 + (mid \div 2^12) + (low \div 2^24)
             L == low % 2^24
         IN IF H >= 2^23
            THEN Renormalize(sign, RoundNearestEven(H, L, 2^24), a.e + b.e + 24)
            ELSE Renormalize(sign,
                     RoundNearestEven(2 * H + (L \div 2^23), L % 2^23, 2^23),
                     a.e + b.e + 23)

\* Long division, one quotient bit per step; r < d throughout.
RECURSIVE DivBits(_, _, _, _)
DivBits(r, d, bits, q) ==
    IF bits = 0 THEN [q |-> q, r |-> r]
    ELSE IF 2 * r >= d THEN DivBits(2 * r - d, d, bits - 1, 2 * q + 1)
         ELSE DivBits(2 * r, d, bits - 1, 2 * q)

\* a / b in binary32, b # 0.
FDiv(a, b) ==
    IF a.m = 0 THEN FZero
    ELSE LET sign == Sign(a.m) * Sign(b.m)
             ma == Abs(a.m)
             mb == Abs(b.m)
         IN IF ma >= mb
            THEN LET d == DivBits(ma - mb, mb, 23, 1)
                 IN Renormalize(sign, RoundNearestEven(d.q, d.r, mb), a.e - b.e - 23)
            ELSE LET d == DivBits(ma, mb, 24, 0)
                 IN Renormalize(sign, RoundNearestEven(d.q, d.r, mb), a.e - b.e - 24)

\* a < b on floats.
FLess(a, b) ==
    IF a.m < 0 /\ b.m >= 0 THEN TRUE
    ELSE IF a.m >= 0 /\ b.m < 0 THEN FALSE
    ELSE IF a.m = 0 THEN b.m > 0
    ELSE IF b.m = 0 THEN a.m < 0
    ELSE IF a.m > 0 THEN a.e < b.e \/ (a.e = b.e /\ a.m < b.m)
    ELSE a.e > b.e \/ (a.e = b.e /\ a.m < b.m)

\* (int)roundf(x): nearest integer, halves away from zero.  The codec only
\* converts |x| <= 2^30; a float outside int converts to INT_MIN, the
\* result of the x86 conversion instruction.
RoundfToInt(x) ==
    IF x.e >= 8 THEN INT_MIN
    ELSE IF x.e >= 0 THEN x.m * 2^(x.e)
    ELSE IF -x.e > 24 THEN 0
    ELSE LET d == 2^(-x.e)
             q == Abs(x.m) \div d
             r == Abs(x.m) % d
         IN Sign(x.m) * (IF 2 * r >= d THEN q + 1 ELSE q)

\* ----------------------------------------------------------- scalar codec
\* Mutant: the upper bound of the clamp is missing.
clamp_lower_only(v) == IF FLess(v, FNegOne) THEN FNegOne ELSE v

clamp(v) ==
    IF FLess(v, FNegOne) THEN FNegOne
    ELSE IF FLess(FOne, v) THEN FOne
    ELSE v

\* One pass of the loop body "max_val *= 3": the wrapped product, and
\* whether a multiplication has overflowed so far.
PowerPass(s) ==
    [i |-> s.i + 1,
     v |-> Mul3Wrap(s.v),
     ovf |-> s.ovf \/ Mul3Overflows(s.v)]

\* Up to c passes of "for (i = 0; i < n; i++) max_val *= 3" from state s,
\* the first half of them before the second.
RECURSIVE PowerIter(_, _, _)
PowerIter(s, c, n) ==
    IF s.i >= n \/ c <= 0 THEN s
    ELSE IF c = 1 THEN PowerPass(s)
    ELSE PowerIter(PowerIter(s, c \div 2, n), c - (c \div 2), n)

\* The loop "max_val = 1; max_val *= 3" run n times.
PowerLoop(n) == PowerIter([i |-> 0, v |-> 1, ovf |-> FALSE], n, n)

\* One iteration of the digit loop on k: the trit written and the new k.
DigitStep(k) ==
    LET raw == CMod(k, 3)
        rem == IF k < 0 /\ raw # 0 THEN raw + 3 ELSE raw
    IN IF rem = 0 THEN [trit |-> 0, k |-> CDiv(k, 3)]
       ELSE IF rem = 1 THEN [trit |-> 1, k |-> CDiv(k, 3)]
       ELSE [trit |-> -1, k |-> CDiv(k + 1, 3)]

\* One pass of the digit loop on the trits written so far and k.
DigitPass(s) ==
    LET d == DigitStep(s.k)
    IN [trits |-> Append(s.trits, d.trit), k |-> d.k]

\* Up to c passes of "for (i = 0; i < num_trits; i++)" from state s, where
\* i is the number of trits written.
RECURSIVE DigitIter(_, _, _)
DigitIter(s, c, n) ==
    IF Len(s.trits) >= n \/ c <= 0 THEN s
    ELSE IF c = 1 THEN DigitPass(s)
    ELSE DigitIter(DigitIter(s, c \div 2, n), c - (c \div 2), n)

\* n iterations of the digit loop: the trits written and the residual k.
DigitLoop(k, n) == DigitIter([trits |-> <<>>, k |-> k], n, n)

\* k = (int)roundf(value * max_val) after clamping.
ScaledInt(value, num_trits) ==
    LET max_val == CDiv(PowerLoop(num_trits).v - 1, 2)
    IN RoundfToInt(FMul(clamp(value), IntToFloat(max_val)))

\* float_to_balanced_ternary: the return value, the trits written, and
\* whether the call trapped on signed overflow.
float_to_balanced_ternary(value, trits_null, num_trits, old, mode) ==
    IF trits_null \/ num_trits <= 0
    THEN [ret |-> -1, trits |-> old, trap |-> FALSE]
    ELSE IF PowerLoop(num_trits).ovf /\ mode = "trap"
    THEN [ret |-> 0, trits |-> old, trap |-> TRUE]
    ELSE [ret |-> 0,
          trits |-> DigitLoop(ScaledInt(value, num_trits), num_trits).trits,
          trap |-> FALSE]

\* One pass of the loop body "value += trits[i] * power; power *= 3".
SumPass(trits, s) ==
    LET term == trits[s.i + 1] * s.power
    IN [i |-> s.i + 1,
        value |-> AddWrap(s.value, term),
        power |-> Mul3Wrap(s.power),
        ovf |-> s.ovf \/ AddOverflows(s.value, term) \/ Mul3Overflows(s.power)]

\* Up to c passes of "for (i = 0; i < num_trits; i++)" from state s.
RECURSIVE SumIter(_, _, _, _)
SumIter(trits, s, c, n) ==
    IF s.i >= n \/ c <= 0 THEN s
    ELSE IF c = 1 THEN SumPass(trits, s)
    ELSE SumIter(trits, SumIter(trits, s, c \div 2, n), c - (c \div 2), n)

\* The loop over the first n trits.
SumLoop(trits, n) ==
    SumIter(trits, [i |-> 0, value |-> 0, power |-> 1, ovf |-> FALSE], n, n)

\* balanced_ternary_to_float: the float returned and whether the call
\* trapped.  max_val is never 0: power is an odd number other than 1.
balanced_ternary_to_float(trits, trits_null, num_trits, mode) ==
    IF trits_null \/ num_trits <= 0
    THEN [val |-> FZero, trap |-> FALSE]
    ELSE LET s == SumLoop(trits, num_trits)
             max_val == CDiv(s.power - 1, 2)
         IN IF s.ovf /\ mode = "trap"
            THEN [val |-> FZero, trap |-> TRUE]
            ELSE [val |-> FDiv(IntToFloat(s.value), IntToFloat(max_val)),
                  trap |-> FALSE]

\* ------------------------------------------- naturals wider than 32 bits
\* A natural number as its base-256 digits, least significant first, with
\* no leading zero digit; <<>> is zero.  size_t is the low 8 digits.
RECURSIVE BNorm(_)
BNorm(x) ==
    IF x = <<>> THEN x
    ELSE IF x[Len(x)] = 0 THEN BNorm(SubSeq(x, 1, Len(x) - 1)) ELSE x

RECURSIVE BFromNat(_)
BFromNat(n) == IF n = 0 THEN <<>> ELSE <<n % 256>> \o BFromNat(n \div 256)

Digit(x, i) == IF i <= Len(x) THEN x[i] ELSE 0
MaxOf(a, b) == IF a >= b THEN a ELSE b
MinOf(a, b) == IF a <= b THEN a ELSE b

RECURSIVE BAddFrom(_, _, _, _)
BAddFrom(x, y, i, carry) ==
    IF i > MaxOf(Len(x), Len(y))
    THEN (IF carry = 0 THEN <<>> ELSE <<carry>>)
    ELSE LET t == Digit(x, i) + Digit(y, i) + carry
         IN <<t % 256>> \o BAddFrom(x, y, i + 1, t \div 256)
BAdd(x, y) == BNorm(BAddFrom(x, y, 1, 0))

\* x - y for x >= y.
RECURSIVE BSubFrom(_, _, _, _)
BSubFrom(x, y, i, borrow) ==
    IF i > Len(x) THEN <<>>
    ELSE LET t == Digit(x, i) - Digit(y, i) - borrow
         IN <<t % 256>> \o BSubFrom(x, y, i + 1, IF t < 0 THEN 1 ELSE 0)
BSub(x, y) == BNorm(BSubFrom(x, y, 1, 0))

RECURSIVE BLessFrom(_, _, _)
BLessFrom(x, y, i) ==
    IF i = 0 THEN FALSE
    ELSE IF x[i] # y[i] THEN x[i] < y[i]
    ELSE BLessFrom(x, y, i - 1)
BLess(x, y) ==
    IF Len(x) # Len(y) THEN Len(x) < Len(y) ELSE BLessFrom(x, y, Len(x))
BLeq(x, y) == ~BLess(y, x)

\* x * d for a digit-sized d (0 <= d < 2^23).
RECURSIVE BScaleFrom(_, _, _, _)
BScaleFrom(x, d, i, carry) ==
    IF i > Len(x) THEN BFromNat(carry)
    ELSE LET t == x[i] * d + carry
         IN <<t % 256>> \o BScaleFrom(x, d, i + 1, t \div 256)
BScale(x, d) == BNorm(BScaleFrom(x, d, 1, 0))

RECURSIVE BMulFrom(_, _, _)
BMulFrom(x, y, i) ==
    IF i > Len(y) THEN <<>>
    ELSE BAdd(BScale(x, y[i]), <<0>> \o BMulFrom(x, y, i + 1))
BMul(x, y) == BNorm(BMulFrom(x, y, 1))

\* x * 2^k.
RECURSIVE BShl(_, _)
BShl(x, k) ==
    IF x = <<>> THEN x
    ELSE IF k >= 8 THEN <<0>> \o BShl(x, k - 8)
    ELSE BScale(x, 2^k)

\* x \div d for 0 < d < 2^23, from the most significant digit down.
RECURSIVE BDivFrom(_, _, _, _)
BDivFrom(x, d, i, rem) ==
    IF i = 0 THEN <<>>
    ELSE LET t == rem * 256 + x[i]
         IN BDivFrom(x, d, i - 1, t % d) \o <<t \div d>>
BDivSmall(x, d) == BNorm(BDivFrom(x, d, Len(x), 0))

\* The value of x as a TLA+ integer, for x < 2^31.
RECURSIVE BToNat(_)
BToNat(x) == IF x = <<>> THEN 0 ELSE x[1] + 256 * BToNat(Tail(x))

\* Reduction modulo 2^64: what size_t arithmetic keeps.
SizeT(x) == BNorm(SubSeq(x, 1, MinOf(Len(x), 8)))

\* (size_t)i for an int i: negative values convert modulo 2^64.
IntToSizeT(i) ==
    IF i >= 0 THEN BFromNat(i)
    ELSE BSub(<<255, 255, 255, 255, 255, 255, 255, 255>>, BFromNat(-(i + 1)))

\* ------------------------------------------------------------- byte packer
\* Mutant: the shift from {-1,0,+1} to {0,1,2} is missing.
pack_trits_unshifted(t0, t1, t2, t3, t4) ==
    (t0 + t1 * 3 + t2 * 9 + t3 * 27 + t4 * 81) % 256

\* (uint8_t) of the int sum.
pack_trits(t0, t1, t2, t3, t4) ==
    ((t0 + 1) + (t1 + 1) * 3 + (t2 + 1) * 9 + (t3 + 1) * 27 + (t4 + 1) * 81) % 256

\* Mutant: the digits are written most significant first.
unpack_trits_reversed(packed) ==
    << ((packed \div 81) % 3) - 1, ((packed \div 27) % 3) - 1,
       ((packed \div 9) % 3) - 1, ((packed \div 3) % 3) - 1, (packed % 3) - 1 >>

\* Mutant: the last quotient is not reduced modulo 3.
unpack_trits_last_unreduced(packed) ==
    << (packed % 3) - 1, ((packed \div 3) % 3) - 1, ((packed \div 9) % 3) - 1,
       ((packed \div 27) % 3) - 1, (packed \div 81) - 1 >>

\* The five trits written, in the order trits[0] .. trits[4].
unpack_trits(packed) ==
    LET p1 == packed \div 3
        p2 == p1 \div 3
        p3 == p2 \div 3
        p4 == p3 \div 3
    IN << (packed % 3) - 1, (p1 % 3) - 1, (p2 % 3) - 1, (p3 % 3) - 1, (p4 % 3) - 1 >>

\* ---------------------------------------------------------- size formula
\* Mutant: the division rounds down (the "+ 4" is missing).
calculate_packed_size_floor(rows, cols, trits_per_val) ==
    BDivSmall(SizeT(BMul(SizeT(BMul(IntToSizeT(rows), IntToSizeT(cols))),
                         IntToSizeT(trits_per_val))), 5)

calculate_packed_size(rows, cols, trits_per_val) ==
    LET total_trits ==
            SizeT(BMul(SizeT(BMul(IntToSizeT(rows), IntToSizeT(cols))),
                       IntToSizeT(trits_per_val)))
    IN BDivSmall(SizeT(BAdd(total_trits, BFromNat(4))), 5)

\* ------------------------------------------------------------ test inputs
\* -1, -0.5, 0, 0.33f, 0.5, 0.75, 1, -0.75, 0.1f, then 2.5 and -7 (out of
\* range, to be clamped).
TestVec ==
    << FNegOne, F(-(2^23), -24), FZero, F(11072963, -25), F(2^23, -24),
       F(12582912, -24), FOne, F(-12582912, -24), F(13421773, -27),
       F(10485760, -22), F(-14680064, -21) >>

\* The test vector, and -0.2f, 0.25 and the float just below 1.
ScalarValues ==
    { TestVec[i] : i \in 1..Len(TestVec) }
        \cup { F(-13421773, -26), F(2^23, -25), F(16777215, -24) }

Trits == {-1, 0, 1}

\* ------------------------------------------- idle values of each component
ScIdle ==
    /\ sc_value = FZero /\ sc_num_trits = 0 /\ sc_trits_null = FALSE
    /\ sc_trits = <<>> /\ sc_ret = 0 /\ sc_out = FZero /\ sc_pc = "idle"
PkIdle == pk_in = <<>> /\ pk_byte = 0 /\ pk_out = <<>> /\ pk_pc = "idle"
SzIdle ==
    /\ sz_rows = 0 /\ sz_cols = 0 /\ sz_tpv = 0 /\ sz_size = <<>>
    /\ sz_pc = "idle"

\* nrioc_status_t and nrioc_state_t (include/nrioc.h).
NR_OK == 0
NR_ERROR == -1
NR_TIMEOUT == -2
NR_BUSY == -3
NR_INVALID_PARAM == -4
NR_NO_DEVICE == -5
NR_STATE_UNINITIALIZED == 0
NR_STATE_IDLE == 1
NR_STATE_BUSY == 2
NR_STATE_ERROR == 3
DEFAULT_ARRAY_WIDTH == 27
DEFAULT_ARRAY_HEIGHT == 27

\* The static initializer of g_driver; weights_buffer is "NULL" or "set".
DriverStatic ==
    [state |-> NR_STATE_UNINITIALIZED,
     array_width |-> DEFAULT_ARRAY_WIDTH,
     array_height |-> DEFAULT_ARRAY_HEIGHT,
     weights_buffer |-> "NULL",
     last_command_time |-> 0]

\* The driver before any call.
DrvIdle ==
    /\ g_driver = DriverStatic /\ drv_call = "none" /\ drv_ptr_null = FALSE
    /\ drv_ret = NR_OK /\ drv_prev = DriverStatic

DgIdle ==
    /\ dg_k = 0 /\ dg_num_trits = 0 /\ dg_trits = <<>> /\ dg_residual = 0
    /\ dg_pc = "idle"

\* The encoder's and the decoder's locals before their call.
EncStart ==
    /\ e_i = 0 /\ e_j = 0 /\ e_trits = <<>> /\ e_trit_buffer = <<>>
    /\ e_buffer_pos = 0 /\ e_packed_index = 0 /\ e_ret = 0
DecStart ==
    /\ d_packed_size = 0 /\ d_packed_index = 0 /\ d_unpacked = <<>>
    /\ d_unpack_pos = 0 /\ d_i = 0 /\ d_j = 0 /\ d_trits = <<>>
    /\ d_matrix = <<>> /\ d_ret = 0
HistStart ==
    /\ h_stores = <<>> /\ h_reads = <<>>
    /\ h_scratch_oob = FALSE /\ h_packed_oob = FALSE
MxIdle ==
    /\ mx_rows = 0 /\ mx_cols = 0 /\ mx_tpv = 0 /\ mx_matrix = <<>>
    /\ mx_matrix_null = FALSE /\ mx_packed_null = FALSE
    /\ mx_packed_size = 0 /\ mx_packed0 = <<>> /\ mx_packed = <<>>
    /\ mx_pc = "idle"
    /\ EncStart /\ DecStart /\ HistStart

\* ------------------------------------------------- scalar codec, as calls
ScalarInit ==
    /\ build \in Builds
    /\ sc_value \in ScalarValues
    /\ sc_num_trits \in 0..MaxTrits
    /\ sc_trits_null \in BOOLEAN
    /\ sc_trits = <<>> /\ sc_ret = 0 /\ sc_out = FZero /\ sc_pc = "start"
    /\ PkIdle /\ SzIdle /\ MxIdle /\ DgIdle /\ DrvIdle

\* A call float_to_balanced_ternary(value, trits, num_trits).
ScalarEncode ==
    /\ sc_pc = "start"
    /\ LET r == float_to_balanced_ternary(sc_value, sc_trits_null, sc_num_trits,
                                          sc_trits, build)
       IN /\ sc_trits' = r.trits
          /\ sc_ret' = r.ret
          /\ sc_pc' = IF r.trap THEN "trapped"
                      ELSE IF r.ret = 0 THEN "encoded" ELSE "rejected"
    /\ UNCHANGED <<build, dgVars, drvVars, sc_value, sc_num_trits, sc_trits_null, sc_out, pkVars, szVars, mxVars>>

\* A call balanced_ternary_to_float(trits, num_trits) on the same buffer.
ScalarDecode ==
    /\ sc_pc \in {"encoded", "rejected"}
    /\ LET r == balanced_ternary_to_float(sc_trits, sc_trits_null, sc_num_trits, build)
       IN /\ sc_out' = r.val
          /\ sc_pc' = IF r.trap THEN "trapped" ELSE "decoded"
    /\ UNCHANGED <<build, dgVars, drvVars, sc_value, sc_num_trits, sc_trits_null, sc_trits, sc_ret,
                   pkVars, szVars, mxVars>>

ScalarNext == ScalarEncode \/ ScalarDecode
SpecScalar == ScalarInit /\ [][ScalarNext]_vars

\* ------------------------------------------------------------ byte packer
PackerInit ==
    /\ build \in Builds
    /\ \/ pk_pc = "start" /\ pk_in \in [1..5 -> Trits] /\ pk_byte = 0
       \/ pk_pc = "byte" /\ pk_in = <<>> /\ pk_byte \in 0..255
    /\ pk_out = <<>>
    /\ ScIdle /\ SzIdle /\ MxIdle /\ DgIdle /\ DrvIdle

Pack ==
    /\ pk_pc = "start"
    /\ pk_byte' = pack_trits(pk_in[1], pk_in[2], pk_in[3], pk_in[4], pk_in[5])
    /\ pk_pc' = "packed"
    /\ UNCHANGED <<build, dgVars, drvVars, pk_in, pk_out, scVars, szVars, mxVars>>

Unpack ==
    /\ pk_pc \in {"packed", "byte"}
    /\ pk_out' = unpack_trits(pk_byte)
    /\ pk_pc' = "unpacked"
    /\ UNCHANGED <<build, dgVars, drvVars, pk_in, pk_byte, scVars, szVars, mxVars>>

PackerNext == Pack \/ Unpack
SpecPacker == PackerInit /\ [][PackerNext]_vars

\* ------------------------------------------------------------ size formula
SizeArgs == (1..MaxSizeArg) \cup {INT_MAX}

SizeInit ==
    /\ build \in Builds
    /\ sz_rows \in SizeArgs /\ sz_cols \in SizeArgs /\ sz_tpv \in SizeArgs
    /\ sz_size = <<>> /\ sz_pc = "start"
    /\ ScIdle /\ PkIdle /\ MxIdle /\ DgIdle /\ DrvIdle

CalcSize ==
    /\ sz_pc = "start"
    /\ sz_size' = calculate_packed_size(sz_rows, sz_cols, sz_tpv)
    /\ sz_pc' = "done"
    /\ UNCHANGED <<build, dgVars, drvVars, sz_rows, sz_cols, sz_tpv, scVars, pkVars, mxVars>>

SizeNext == CalcSize
SpecSize == SizeInit /\ [][SizeNext]_vars

\* ------------------------------------------------- digit loop, on integers
\* (3^n - 1) / 2.
RECURSIVE HalfPow3(_)
HalfPow3(n) == IF n <= 0 THEN 0 ELSE 3 * HalfPow3(n - 1) + 1

\* Every k that n trits can represent, for n up to MaxDigits.
DigitsInit ==
    /\ build \in Builds
    /\ dg_num_trits \in 1..MaxDigits
    /\ dg_k \in (-HalfPow3(MaxDigits))..HalfPow3(MaxDigits)
    /\ Abs(dg_k) <= HalfPow3(dg_num_trits)
    /\ dg_trits = <<>> /\ dg_residual = dg_k /\ dg_pc = "start"
    /\ ScIdle /\ PkIdle /\ SzIdle /\ MxIdle /\ DrvIdle

\* The loop of lines 63-81 on k.
RunDigitLoop ==
    /\ dg_pc = "start"
    /\ LET r == DigitLoop(dg_k, dg_num_trits)
       IN dg_trits' = r.trits /\ dg_residual' = r.k
    /\ dg_pc' = "done"
    /\ UNCHANGED <<build, drvVars, dg_k, dg_num_trits, scVars, pkVars, szVars, mxVars>>

DigitsNext == RunDigitLoop
SpecDigits == DigitsInit /\ [][DigitsNext]_vars

\* ------------------------------------------------------------ matrix codec
\* The size of the local arrays "int8_t trits[64]".
TRITS_SCRATCH == 64

\* Mutant: the fill byte of the memset is 0xFF.
Zeroed_with_ones(n) == [p \in 1..n |-> 255]

\* memset(packed, 0, packed_size).
Zeroed(n) == [p \in 1..n |-> 0]

\* Mutant: the output is zero-filled before its size is checked.
float_matrix_to_ternary_entry_memset_first(matrix_null, packed_null, rows, cols, trits_per_val, packed, packed_size) ==
    IF matrix_null \/ packed_null \/ rows <= 0 \/ cols <= 0 \/ trits_per_val <= 0
    THEN [ret |-> -1, packed |-> packed, run |-> FALSE]
    ELSE IF BLess(BFromNat(packed_size),
                  calculate_packed_size(rows, cols, trits_per_val))
    THEN [ret |-> -1, packed |-> Zeroed(packed_size), run |-> FALSE]
    ELSE IF trits_per_val > TRITS_SCRATCH
    THEN [ret |-> -1, packed |-> Zeroed(packed_size), run |-> FALSE]
    ELSE [ret |-> 0, packed |-> Zeroed(packed_size), run |-> TRUE]

\* Mutant: the check of trits_per_val against the scratch array is missing.
float_matrix_to_ternary_entry_no_ceiling(matrix_null, packed_null, rows, cols, trits_per_val, packed, packed_size) ==
    IF matrix_null \/ packed_null \/ rows <= 0 \/ cols <= 0 \/ trits_per_val <= 0
    THEN [ret |-> -1, packed |-> packed, run |-> FALSE]
    ELSE IF BLess(BFromNat(packed_size),
                  calculate_packed_size(rows, cols, trits_per_val))
    THEN [ret |-> -1, packed |-> packed, run |-> FALSE]
    ELSE [ret |-> 0, packed |-> Zeroed(packed_size), run |-> TRUE]

\* float_matrix_to_ternary up to its loops: the argument checks, the size
\* check, the memset and the check against the scratch array.  ret is the
\* value returned when run is FALSE.
float_matrix_to_ternary_entry(matrix_null, packed_null, rows, cols, trits_per_val, packed, packed_size) ==
    IF matrix_null \/ packed_null \/ rows <= 0 \/ cols <= 0 \/ trits_per_val <= 0
    THEN [ret |-> -1, packed |-> packed, run |-> FALSE]
    ELSE IF BLess(BFromNat(packed_size),
                  calculate_packed_size(rows, cols, trits_per_val))
    THEN [ret |-> -1, packed |-> packed, run |-> FALSE]
    ELSE IF trits_per_val > TRITS_SCRATCH
    THEN [ret |-> -1, packed |-> Zeroed(packed_size), run |-> FALSE]
    ELSE [ret |-> 0, packed |-> Zeroed(packed_size), run |-> TRUE]

\* ternary_to_float_matrix up to its loops.
ternary_to_float_matrix_entry(packed_null, trits_per_val, matrix_null, rows, cols) ==
    IF packed_null \/ matrix_null \/ rows <= 0 \/ cols <= 0 \/ trits_per_val <= 0
    THEN [ret |-> -1, run |-> FALSE]
    ELSE IF trits_per_val > TRITS_SCRATCH
    THEN [ret |-> -1, run |-> FALSE]
    ELSE [ret |-> 0, run |-> TRUE]

\* Mutant: the decoder notices the end of the input one byte late.
OutOfPackedData_off_by_one(packed_index, packed_size) ==
    packed_index > packed_size

\* Mutant: the decoder never tests for the end of its input.
OutOfPackedData_unchecked(packed_index, packed_size) == FALSE

\* The decoder's test "packed_index >= packed_size".
OutOfPackedData(packed_index, packed_size) == packed_index >= packed_size

\* Mutant: the decoder's collected trits are never overwritten, only
\* appended.
Store_append(arr, i, x) == Append(arr, x)

\* An array element written at 0-based index i; the array grows when the
\* index was never written before.
Store(arr, i, x) ==
    IF i < Len(arr) THEN [arr EXCEPT ![i + 1] = x] ELSE Append(arr, x)

\* What a read outside the packed buffer may return.
StrayBytes == {0, 121, 255}

\* The caller's buffer before the call: stale bytes 0xAA and 0xFF.
StaleBuffer(n) == [p \in 1..n |-> IF p % 2 = 1 THEN 170 ELSE 255]

Unwritten == [w |-> FALSE, v |-> FZero]
Written(f) == [w |-> TRUE, v |-> f]

TpvSet == {0, 1, 3, 5, 8, TRITS_SCRATCH, TRITS_SCRATCH + 1}

\* The bytes the matrix needs, as an integer (0 for arguments the matrix
\* functions reject).
Required(rows, cols, trits_per_val) ==
    IF rows > 0 /\ cols > 0 /\ trits_per_val > 0
    THEN BToNat(calculate_packed_size(rows, cols, trits_per_val))
    ELSE 0

MatrixInit ==
    /\ build \in Builds
    /\ mx_rows \in 0..MaxRows
    /\ mx_cols \in 0..MaxCols
    /\ mx_tpv \in TpvSet
    /\ \E nulls \in {<<FALSE, FALSE>>, <<TRUE, FALSE>>, <<FALSE, TRUE>>} :
          mx_matrix_null = nulls[1] /\ mx_packed_null = nulls[2]
    /\ \E off \in 0..MaxOffset :
          mx_matrix =
              IF mx_matrix_null THEN <<>>
              ELSE [i \in 1..(mx_rows * mx_cols) |->
                        TestVec[((off + i - 1) % Len(TestVec)) + 1]]
    /\ mx_packed_size \in
          { n \in { Required(mx_rows, mx_cols, mx_tpv) - 1,
                    Required(mx_rows, mx_cols, mx_tpv),
                    Required(mx_rows, mx_cols, mx_tpv) + MaxSlack } : n >= 0 }
    /\ mx_packed0 = IF mx_packed_null THEN <<>> ELSE StaleBuffer(mx_packed_size)
    /\ mx_packed = mx_packed0
    /\ mx_pc = "enc_call"
    /\ EncStart /\ DecStart /\ HistStart
    /\ ScIdle /\ PkIdle /\ SzIdle /\ DgIdle /\ DrvIdle

\* float_matrix_to_ternary, lines 173-195: checks, memset, locals.
EncEntry ==
    /\ mx_pc = "enc_call"
    /\ LET r == float_matrix_to_ternary_entry(mx_matrix_null, mx_packed_null,
                    mx_rows, mx_cols, mx_tpv, mx_packed, mx_packed_size)
       IN /\ mx_packed' = r.packed
          /\ e_ret' = r.ret
          /\ mx_pc' = IF r.run THEN "enc_elem" ELSE "enc_done"
          /\ e_trit_buffer' = IF r.run THEN <<0, 0, 0, 0, 0>> ELSE e_trit_buffer
    /\ UNCHANGED <<e_i, e_j, e_trits, e_buffer_pos, e_packed_index>>
    /\ UNCHANGED <<build, dgVars, drvVars, mxArgs, decVars, histVars, scVars, pkVars, szVars>>

\* Top of the outer loop with i < rows * cols: the call
\* float_to_balanced_ternary(matrix[i], trits, trits_per_val).
EncElem ==
    /\ mx_pc = "enc_elem"
    /\ e_i < mx_rows * mx_cols
    /\ LET r == float_to_balanced_ternary(mx_matrix[e_i + 1], FALSE, mx_tpv,
                                          e_trits, build)
       IN /\ e_trits' = r.trits
          /\ mx_pc' = IF r.trap THEN "trapped" ELSE "enc_trit"
    /\ e_j' = 0
    /\ h_scratch_oob' = (h_scratch_oob \/ mx_tpv > TRITS_SCRATCH)
    /\ UNCHANGED <<e_i, e_trit_buffer, e_buffer_pos, e_packed_index, e_ret>>
    /\ UNCHANGED <<h_stores, h_reads, h_packed_oob>>
    /\ UNCHANGED <<build, dgVars, drvVars, mxArgs, mx_packed, decVars, scVars, pkVars, szVars>>

\* One iteration of the inner loop: trit j of the element enters the
\* 5-slot buffer; a full buffer is packed into packed[packed_index++].
EncTrit ==
    /\ mx_pc = "enc_trit"
    /\ LET buf == [e_trit_buffer EXCEPT ![e_buffer_pos + 1] = e_trits[e_j + 1]]
           full == (e_buffer_pos + 1 = 5)
           inside == e_packed_index < Len(mx_packed)
       IN /\ e_trit_buffer' = buf
          /\ e_buffer_pos' = IF full THEN 0 ELSE e_buffer_pos + 1
          /\ e_packed_index' = IF full THEN e_packed_index + 1 ELSE e_packed_index
          /\ mx_packed' =
                IF full /\ inside
                THEN [mx_packed EXCEPT ![e_packed_index + 1] =
                          pack_trits(buf[1], buf[2], buf[3], buf[4], buf[5])]
                ELSE mx_packed
          /\ h_stores' = IF full THEN Append(h_stores, e_packed_index)
                         ELSE h_stores
          /\ h_packed_oob' = (h_packed_oob \/ (full /\ ~inside))
    /\ IF e_j + 1 < mx_tpv
       THEN e_j' = e_j + 1 /\ e_i' = e_i /\ mx_pc' = mx_pc
       ELSE e_j' = e_j + 1 /\ e_i' = e_i + 1 /\ mx_pc' = "enc_elem"
    /\ UNCHANGED <<e_trits, e_ret, h_reads, h_scratch_oob>>
    /\ UNCHANGED <<build, dgVars, drvVars, mxArgs, decVars, scVars, pkVars, szVars>>

\* After the loops (lines 216-227): a partial group is padded with trit 0
\* and packed into packed[packed_index]; return 0.
EncTail ==
    /\ mx_pc = "enc_elem"
    /\ e_i >= mx_rows * mx_cols
    /\ LET buf == [q \in 1..5 |->
                      IF q > e_buffer_pos THEN 0 ELSE e_trit_buffer[q]]
           partial == e_buffer_pos > 0
           inside == e_packed_index < Len(mx_packed)
       IN /\ e_trit_buffer' = IF partial THEN buf ELSE e_trit_buffer
          /\ e_buffer_pos' = IF partial THEN 5 ELSE e_buffer_pos
          /\ mx_packed' =
                IF partial /\ inside
                THEN [mx_packed EXCEPT ![e_packed_index + 1] =
                          pack_trits(buf[1], buf[2], buf[3], buf[4], buf[5])]
                ELSE mx_packed
          /\ h_stores' = IF partial THEN Append(h_stores, e_packed_index)
                         ELSE h_stores
          /\ h_packed_oob' = (h_packed_oob \/ (partial /\ ~inside))
    /\ e_ret' = 0
    /\ mx_pc' = "enc_done"
    /\ UNCHANGED <<e_i, e_j, e_trits, e_packed_index, h_reads, h_scratch_oob>>
    /\ UNCHANGED <<build, dgVars, drvVars, mxArgs, decVars, scVars, pkVars, szVars>>

\* The packed sizes the decoder is called with: one byte short of the
\* required size, the required size, the whole buffer.
DecSizes ==
    { n \in { Required(mx_rows, mx_cols, mx_tpv) - 1,
              Required(mx_rows, mx_cols, mx_tpv),
              mx_packed_size } : n >= 0 /\ n <= mx_packed_size }

\* ternary_to_float_matrix on the encoder's buffer, lines 240-253.
DecEntry ==
    /\ mx_pc = "enc_done"
    /\ d_packed_size' \in DecSizes
    /\ LET r == ternary_to_float_matrix_entry(mx_packed_null, mx_tpv,
                                              mx_matrix_null, mx_rows, mx_cols)
       IN /\ d_ret' = r.ret
          /\ mx_pc' = IF r.run THEN "dec_trit" ELSE "dec_done"
          /\ d_unpack_pos' = IF r.run THEN 5 ELSE d_unpack_pos
          /\ d_matrix' = IF r.run
                         THEN [i \in 1..(mx_rows * mx_cols) |-> Unwritten]
                         ELSE d_matrix
    /\ UNCHANGED <<d_packed_index, d_unpacked, d_i, d_j, d_trits>>
    /\ UNCHANGED <<build, dgVars, drvVars, mxArgs, mx_packed, encVars, histVars, scVars,
                   pkVars, szVars>>

\* One iteration of the decoder's inner loop that finds a trit: a new byte
\* is unpacked when the group is used up, then trits[j] is set.
DecTrit ==
    /\ mx_pc = "dec_trit"
    /\ ~(d_unpack_pos >= 5 /\ OutOfPackedData(d_packed_index, d_packed_size))
    /\ LET fetch == d_unpack_pos >= 5
           inside == d_packed_index < Len(mx_packed)
       IN \E byte \in (IF inside THEN {mx_packed[d_packed_index + 1]}
                       ELSE StrayBytes) :
            LET group == IF fetch THEN unpack_trits(byte) ELSE d_unpacked
                pos == IF fetch THEN 0 ELSE d_unpack_pos
            IN /\ d_unpacked' = group
               /\ d_unpack_pos' = pos + 1
               /\ d_packed_index' = IF fetch THEN d_packed_index + 1
                                    ELSE d_packed_index
               /\ d_trits' = Store(d_trits, d_j, group[pos + 1])
               /\ h_reads' = IF fetch THEN Append(h_reads, d_packed_index)
                             ELSE h_reads
               /\ h_packed_oob' = (h_packed_oob \/ (fetch /\ ~inside))
    /\ h_scratch_oob' = (h_scratch_oob \/ d_j >= TRITS_SCRATCH)
    /\ d_j' = d_j + 1
    /\ mx_pc' = IF d_j + 1 < mx_tpv THEN mx_pc ELSE "dec_store"
    /\ UNCHANGED <<d_packed_size, d_i, d_matrix, d_ret, h_stores>>
    /\ UNCHANGED <<build, dgVars, drvVars, mxArgs, mx_packed, encVars, scVars, pkVars, szVars>>

\* The iteration that needs a byte and has none: return -1.
DecStarve ==
    /\ mx_pc = "dec_trit"
    /\ d_unpack_pos >= 5
    /\ OutOfPackedData(d_packed_index, d_packed_size)
    /\ d_ret' = -1
    /\ mx_pc' = "dec_done"
    /\ UNCHANGED <<d_packed_size, d_packed_index, d_unpacked, d_unpack_pos,
                   d_i, d_j, d_trits, d_matrix>>
    /\ UNCHANGED <<build, dgVars, drvVars, mxArgs, mx_packed, encVars, histVars, scVars,
                   pkVars, szVars>>

\* matrix[i] = balanced_ternary_to_float(trits, trits_per_val), then the
\* next element, or return 0 after the last.
DecStore ==
    /\ mx_pc = "dec_store"
    /\ LET r == balanced_ternary_to_float(d_trits, FALSE, mx_tpv, build)
           last == ~(d_i + 1 < mx_rows * mx_cols)
       IN IF r.trap
          THEN /\ mx_pc' = "trapped"
               /\ UNCHANGED <<d_i, d_j, d_matrix, d_ret>>
          ELSE /\ d_matrix' = [d_matrix EXCEPT ![d_i + 1] = Written(r.val)]
               /\ d_i' = d_i + 1
               /\ d_j' = 0
               /\ d_ret' = IF last THEN 0 ELSE d_ret
               /\ mx_pc' = IF last THEN "dec_done" ELSE "dec_trit"
    /\ UNCHANGED <<d_packed_size, d_packed_index, d_unpacked, d_unpack_pos,
                   d_trits>>
    /\ UNCHANGED <<build, dgVars, drvVars, mxArgs, mx_packed, encVars, histVars, scVars,
                   pkVars, szVars>>

MatrixNext ==
    \/ EncEntry \/ EncElem \/ EncTrit \/ EncTail
    \/ DecEntry \/ DecTrit \/ DecStarve \/ DecStore
SpecMatrix == MatrixInit /\ [][MatrixNext]_vars

\* --------------------------------------------------------- driver (nrioc.c)
\* Each function maps g_driver before the call to g_driver after it and the
\* value returned.
nrioc_init(g) ==
    IF g.state # NR_STATE_UNINITIALIZED THEN [g |-> g, ret |-> NR_ERROR]
    ELSE [g |-> [state |-> NR_STATE_IDLE,
                 array_width |-> DEFAULT_ARRAY_WIDTH,
                 array_height |-> DEFAULT_ARRAY_HEIGHT,
                 weights_buffer |-> "NULL",
                 last_command_time |-> 0],
          ret |-> NR_OK]

nrioc_shutdown(g) ==
    IF g.state = NR_STATE_UNINITIALIZED THEN [g |-> g, ret |-> NR_ERROR]
    ELSE [g |-> [g EXCEPT !.weights_buffer = "NULL",
                          !.state = NR_STATE_UNINITIALIZED],
          ret |-> NR_OK]

\* Mutant: a wait on a busy driver gives up and leaves it busy.
nrioc_wait_times_out(g, timeout_ms) ==
    IF g.state = NR_STATE_UNINITIALIZED THEN [g |-> g, ret |-> NR_NO_DEVICE]
    ELSE IF g.state = NR_STATE_IDLE THEN [g |-> g, ret |-> NR_OK]
    ELSE [g |-> g, ret |-> NR_TIMEOUT]

\* now is the value of time(NULL), stored in cmd->timestamp as well.
nrioc_submit(g, cmd_null, now) ==
    IF cmd_null THEN [g |-> g, ret |-> NR_INVALID_PARAM]
    ELSE IF g.state = NR_STATE_UNINITIALIZED THEN [g |-> g, ret |-> NR_NO_DEVICE]
    ELSE IF g.state = NR_STATE_BUSY THEN [g |-> g, ret |-> NR_BUSY]
    ELSE [g |-> [g EXCEPT !.last_command_time = now, !.state = NR_STATE_BUSY],
          ret |-> NR_OK]

nrioc_wait(g, timeout_ms) ==
    IF g.state = NR_STATE_UNINITIALIZED THEN [g |-> g, ret |-> NR_NO_DEVICE]
    ELSE IF g.state = NR_STATE_IDLE THEN [g |-> g, ret |-> NR_OK]
    ELSE [g |-> [g EXCEPT !.state = NR_STATE_IDLE], ret |-> NR_OK]

nrioc_load_weights(g, weights_null, width, height, now) ==
    IF weights_null \/ width <= 0 \/ height <= 0
    THEN [g |-> g, ret |-> NR_INVALID_PARAM]
    ELSE IF width > g.array_width \/ height > g.array_height
    THEN [g |-> g, ret |-> NR_INVALID_PARAM]
    ELSE LET status == nrioc_submit(g, FALSE, now)
         IN IF status.ret # NR_OK THEN status ELSE nrioc_wait(status.g, 1000)

nrioc_compute(g, input_null, output_null, width, height, now) ==
    IF input_null \/ output_null \/ width <= 0 \/ height <= 0
    THEN [g |-> g, ret |-> NR_INVALID_PARAM]
    ELSE IF width > g.array_width \/ height > g.array_height
    THEN [g |-> g, ret |-> NR_INVALID_PARAM]
    ELSE LET status == nrioc_submit(g, FALSE, now)
         IN IF status.ret # NR_OK THEN status ELSE nrioc_wait(status.g, 1000)

\* Values of time(NULL), of width and height, and of timeout_ms.
Clock == 0..MaxClock
DimArgs == {0, 1, DEFAULT_ARRAY_WIDTH, DEFAULT_ARRAY_WIDTH + 1}
Timeouts == {0, 1000}

DriverInit ==
    /\ build \in Builds
    /\ DrvIdle
    /\ ScIdle /\ PkIdle /\ SzIdle /\ MxIdle /\ DgIdle

\* The call has returned r: g_driver is updated and the call recorded.
Returned(name, ptr_null, r) ==
    /\ g_driver' = r.g
    /\ drv_call' = name
    /\ drv_ptr_null' = ptr_null
    /\ drv_ret' = r.ret
    /\ drv_prev' = g_driver
    /\ UNCHANGED <<build, dgVars, scVars, pkVars, szVars, mxVars>>

CallInit == Returned("nrioc_init", FALSE, nrioc_init(g_driver))
CallShutdown == Returned("nrioc_shutdown", FALSE, nrioc_shutdown(g_driver))
CallSubmit ==
    \E cmd_null \in BOOLEAN, now \in Clock :
        Returned("nrioc_submit", cmd_null, nrioc_submit(g_driver, cmd_null, now))
CallWait ==
    \E timeout_ms \in Timeouts :
        Returned("nrioc_wait", FALSE, nrioc_wait(g_driver, timeout_ms))
CallLoadWeights ==
    \E weights_null \in BOOLEAN, width \in DimArgs, height \in DimArgs,
       now \in Clock :
        Returned("nrioc_load_weights", weights_null,
                 nrioc_load_weights(g_driver, weights_null, width, height, now))
CallCompute ==
    \E input_null \in BOOLEAN, output_null \in BOOLEAN, width \in DimArgs,
       height \in DimArgs, now \in Clock :
        Returned("nrioc_compute", input_null \/ output_null,
                 nrioc_compute(g_driver, input_null, output_null, width,
                               height, now))

DriverNext ==
    \/ CallInit \/ CallShutdown \/ CallSubmit \/ CallWait
    \/ CallLoadWeights \/ CallCompute
SpecDriver == DriverInit /\ [][DriverNext]_vars

\* =================================================================== claims
\* 3^n and (3^n - 1) / 2 as exact natural numbers.
RECURSIVE BPow3(_)
BPow3(n) ==
    IF n = 0 THEN <<1>>
    ELSE LET h == BPow3(n \div 2)
         IN IF n % 2 = 0 THEN BMul(h, h) ELSE BScale(BMul(h, h), 3)
BMaxVal(n) == BDivSmall(BSub(BPow3(n), <<1>>), 2)

\* -1 <= v <= 1.
InUnit(v) == ~FLess(v, FNegOne) /\ ~FLess(FOne, v)

\* |d - v| <= 1 / M for floats d, v and a natural M, decided exactly:
\* with e0 the smaller exponent, |d - v| = X * 2^e0 for a natural X.
WithinQuantum(d, v, M) ==
    LET e0 == IF d.m = 0 THEN v.e ELSE IF v.m = 0 THEN d.e ELSE MinOf(d.e, v.e)
        A == IF d.m = 0 THEN <<>> ELSE BShl(BFromNat(Abs(d.m)), d.e - e0)
        B == IF v.m = 0 THEN <<>> ELSE BShl(BFromNat(Abs(v.m)), v.e - e0)
        X == IF (d.m < 0) = (v.m < 0) \/ d.m = 0 \/ v.m = 0
             THEN (IF BLess(A, B) THEN BSub(B, A) ELSE BSub(A, B))
             ELSE BAdd(A, B)
        lhs == BMul(M, X)
    IN IF e0 <= 0 THEN BLeq(lhs, BShl(<<1>>, -e0))
       ELSE BLeq(BShl(lhs, e0), <<1>>)

\* C1: for n in 1..20 and a value in [-1,1], decoding the trits encoded
\* from the value gives a float within 1/max_val(n) of the value, where
\* max_val(n) = (3^n - 1)/2.
C1_ScalarRoundTrip ==
    (/\ sc_pc = "decoded"
     /\ ~sc_trits_null
     /\ sc_num_trits \in 1..20
     /\ InUnit(sc_value))
    => WithinQuantum(sc_out, sc_value, BMaxVal(sc_num_trits))

\* C3: unpacking the byte packed from five trits gives back the five trits
\* in order, and no other quintuple packs to the same byte.
C3_PackUnpackBijection ==
    /\ (pk_pc = "unpacked" /\ pk_in # <<>>) => pk_out = pk_in
    /\ (pk_pc = "packed") =>
          \A q \in [1..5 -> Trits] :
              pack_trits(q[1], q[2], q[3], q[4], q[5]) = pk_byte => q = pk_in

C3_Witness ==
    /\ pk_pc = "unpacked"
    /\ pk_in = <<1, -1, 0, 1, -1>>
    /\ pk_out = <<1, -1, 0, 1, -1>>

\* Sum over j in 0..4 of (t_j + 1) * 3^j.
RECURSIVE DigitSum(_, _)
DigitSum(q, j) == IF j > 4 THEN 0 ELSE (q[j + 1] + 1) * 3^j + DigitSum(q, j + 1)

\* C4: the byte packed from five valid trits is the sum of (t_j + 1) * 3^j
\* and lies in 0..242.
C4_ByteRange ==
    (pk_pc \in {"packed", "unpacked"} /\ pk_in # <<>>)
    => (pk_byte = DigitSum(pk_in, 0) /\ pk_byte \in 0..242)

C4_Witness ==
    /\ pk_pc = "packed" /\ pk_in = <<1, 1, 1, 1, 1>> /\ pk_byte = 242

\* C5: a value above 1 is encoded to the trits of 1.0 and a value below -1
\* to the trits of -1.0, and the call succeeds (returns 0).
C5_Clamping ==
    (sc_pc \in {"encoded", "decoded"} /\ sc_ret = 0)
    => /\ FLess(FOne, sc_value) =>
            sc_trits = float_to_balanced_ternary(FOne, FALSE, sc_num_trits,
                                                 <<>>, build).trits
       /\ FLess(sc_value, FNegOne) =>
            sc_trits = float_to_balanced_ternary(FNegOne, FALSE, sc_num_trits,
                                                 <<>>, build).trits
       /\ (sc_num_trits >= 1 /\ ~sc_trits_null) => Len(sc_trits) = sc_num_trits

\* encode(2.5, 4) has produced the trits of 1.0 (40 = 1 + 3 + 9 + 27).
C5_Witness ==
    /\ sc_pc = "encoded" /\ sc_ret = 0
    /\ sc_value = F(10485760, -22) /\ sc_num_trits = 4
    /\ sc_trits = <<1, 1, 1, 1>>

\* C6: calculate_packed_size(rows, cols, trits_per_val) is
\* ceil(rows * cols * trits_per_val / 5), so 5 times it is at least the
\* number of trits; it is 6 for (2,3,5), 1 for (1,1,1) and 9 for (3,3,5).
C6_SizeFormula ==
    (sz_pc = "done") =>
        LET total == BMul(BMul(BFromNat(sz_rows), BFromNat(sz_cols)),
                          BFromNat(sz_tpv))
        IN /\ sz_size = BDivSmall(BAdd(total, <<4>>), 5)
           /\ BLeq(total, BScale(sz_size, 5))
           /\ (<<sz_rows, sz_cols, sz_tpv>> = <<2, 3, 5>>) => sz_size = <<6>>
           /\ (<<sz_rows, sz_cols, sz_tpv>> = <<1, 1, 1>>) => sz_size = <<1>>
           /\ (<<sz_rows, sz_cols, sz_tpv>> = <<3, 3, 5>>) => sz_size = <<9>>

\* Arguments the matrix functions accept, and a matrix of values in [-1,1].
MxValid ==
    /\ ~mx_matrix_null /\ ~mx_packed_null
    /\ mx_rows >= 1 /\ mx_cols >= 1 /\ mx_tpv \in 1..TRITS_SCRATCH
MxInUnit == \A i \in 1..Len(mx_matrix) : InUnit(mx_matrix[i])
MxRequired == Required(mx_rows, mx_cols, mx_tpv)
MxTotalTrits == mx_rows * mx_cols * mx_tpv

\* The encoder has returned (the decoder may have run since).
EncReturned == mx_pc \in {"enc_done", "dec_trit", "dec_store", "dec_done"}

\* C2: for rows, cols >= 1, trits_per_val in 1..64 and a matrix of values
\* in [-1,1], encoding into a buffer of calculate_packed_size bytes and
\* decoding it with the same arguments succeeds twice, and every decoded
\* element is within 1/max_val(trits_per_val) of the original.
C2_MatrixRoundTrip ==
    (/\ MxValid /\ MxInUnit
     /\ mx_packed_size = MxRequired
     /\ \/ mx_pc = "trapped"
        \/ mx_pc = "dec_done" /\ d_packed_size = mx_packed_size)
    => /\ mx_pc = "dec_done"
       /\ e_ret = 0 /\ d_ret = 0
       /\ \A i \in 1..Len(mx_matrix) :
             /\ d_matrix[i].w
             /\ WithinQuantum(d_matrix[i].v, mx_matrix[i], BMaxVal(mx_tpv))

\* C7: with valid rows, cols, trits_per_val and packed_size below
\* calculate_packed_size, float_matrix_to_ternary returns failure and every
\* byte of the output buffer is as it was before the call.
C7_UndersizedRejected ==
    (/\ EncReturned
     /\ ~mx_matrix_null /\ ~mx_packed_null
     /\ mx_rows >= 1 /\ mx_cols >= 1 /\ mx_tpv >= 1
     /\ mx_packed_size < MxRequired)
    => /\ e_ret = -1
       /\ mx_packed = mx_packed0
       /\ h_stores = <<>>

\* A 2-row, 2-column matrix at 8 trits per value was offered 6 of the 7
\* bytes: the call failed and the stale first byte 0xAA is still there.
C7_Witness ==
    /\ mx_pc = "enc_done" /\ e_ret = -1
    /\ mx_rows = 2 /\ mx_cols = 2 /\ mx_tpv = 8
    /\ mx_packed_size = 6
    /\ mx_packed = mx_packed0 /\ mx_packed[1] = 170

\* C8: with valid arguments and packed_size = calculate_packed_size - 1,
\* ternary_to_float_matrix fails at the test for exhausted input, and when
\* it fails exactly the elements before the one it was collecting trits
\* for are written.
C8_StarvedDecode ==
    (/\ mx_pc = "dec_done"
     /\ MxValid
     /\ d_packed_size = MxRequired - 1)
    => /\ d_ret = -1
       /\ d_unpack_pos >= 5 /\ d_packed_index >= d_packed_size
       /\ d_i < mx_rows * mx_cols
       /\ \A i \in 1..Len(d_matrix) : d_matrix[i].w <=> (i <= d_i)

\* Decoding a 2x2 matrix at 8 trits per value from 6 of its 7 bytes failed
\* in the last element, after the first three were written.
C8_Witness ==
    /\ mx_pc = "dec_done" /\ d_ret = -1
    /\ mx_rows = 2 /\ mx_cols = 2 /\ mx_tpv = 8
    /\ e_ret = 0
    /\ d_packed_size = 6 /\ d_packed_index = 6
    /\ d_i = 3 /\ d_matrix[3].w /\ ~d_matrix[4].w

\* C9: both matrix functions return failure when trits_per_val > 64,
\* neither indexes its 64-slot scratch array at 64 or above, and neither
\* rejects trits_per_val = 64 when its other arguments are acceptable.
C9_PrecisionCeiling ==
    /\ ~h_scratch_oob
    /\ (EncReturned /\ mx_tpv > TRITS_SCRATCH) => e_ret = -1
    /\ (mx_pc = "dec_done" /\ mx_tpv > TRITS_SCRATCH) => d_ret = -1
    /\ (EncReturned /\ MxValid /\ mx_tpv = TRITS_SCRATCH
            /\ mx_packed_size >= MxRequired) => e_ret = 0
    /\ (mx_pc = "dec_done" /\ MxValid /\ mx_tpv = TRITS_SCRATCH
            /\ d_packed_size >= MxRequired) => d_ret = 0

\* A matrix at 64 trits per value was encoded and decoded with success,
\* the last trit of an element going through slot 63 of the scratch array.
C9_Witness ==
    /\ mx_pc = "dec_done" /\ mx_tpv = TRITS_SCRATCH
    /\ e_ret = 0 /\ d_ret = 0
    /\ Len(e_trits) = TRITS_SCRATCH /\ Len(d_trits) = TRITS_SCRATCH

\* The padding slots of the final partial group unpack to trit 0.
PaddingReadsZero ==
    (MxTotalTrits % 5 # 0) =>
        \A q \in ((MxTotalTrits % 5) + 1)..5 :
            unpack_trits(mx_packed[MxRequired])[q] = 0

\* C10 as stated: after a successful float_matrix_to_ternary on a buffer of
\* at least calculate_packed_size bytes, every byte from index
\* calculate_packed_size to packed_size - 1 unpacks to (0,0,0,0,0), and the
\* padding slots of the final partial group unpack to trit 0.
C10_TailReadsZeroTrits ==
    (EncReturned /\ MxValid /\ e_ret = 0 /\ mx_packed_size >= MxRequired)
    => /\ \A p \in (MxRequired + 1)..mx_packed_size :
             unpack_trits(mx_packed[p]) = <<0, 0, 0, 0, 0>>
       /\ PaddingReadsZero

\* C10, amended: every byte from index calculate_packed_size to
\* packed_size - 1 is the zero byte of the memset, which unpack_trits reads
\* as (-1,-1,-1,-1,-1) (the byte of five zero trits is 121); the padding
\* slots of the final partial group do unpack to trit 0.
C10_TailIsZeroBytes ==
    (EncReturned /\ MxValid /\ e_ret = 0 /\ mx_packed_size >= MxRequired)
    => /\ \A p \in (MxRequired + 1)..mx_packed_size :
             /\ mx_packed[p] = 0
             /\ unpack_trits(mx_packed[p]) = <<-1, -1, -1, -1, -1>>
       /\ PaddingReadsZero
       /\ pack_trits(0, 0, 0, 0, 0) = 121

\* A 1x1 matrix at 3 trits per value was encoded into 2 bytes: byte 0 holds
\* the group with two padding slots, byte 1 is the untouched zero byte.
C10_Witness ==
    /\ mx_pc = "enc_done" /\ e_ret = 0
    /\ mx_rows = 1 /\ mx_cols = 1 /\ mx_tpv = 3
    /\ mx_packed_size = 2 /\ mx_packed[2] = 0
    /\ h_stores = <<0>>

\* C11: the stores of pack_trits results into packed[] go to the indices
\* 0, 1, 2, ... in this order, each below calculate_packed_size, which is
\* at most packed_size; a successful float_matrix_to_ternary has made
\* exactly calculate_packed_size of them.
C11_ExactWriteCount ==
    LET required == MxRequired
    IN /\ \A k \in 1..Len(h_stores) :
             /\ h_stores[k] = k - 1
             /\ h_stores[k] < required
             /\ required <= mx_packed_size
       /\ (EncReturned /\ e_ret = 0 /\ MxValid) => Len(h_stores) = required

\* The 3x3 matrix at 8 trits per value (72 trits) was encoded with 15
\* stores, the last of them the final partial group of 2 trits.
C11_Witness ==
    /\ mx_pc = "enc_done" /\ e_ret = 0
    /\ mx_rows = 3 /\ mx_cols = 3 /\ mx_tpv = 8
    /\ Len(h_stores) = 15 /\ h_stores[15] = 14
    /\ e_buffer_pos = 5 /\ e_packed_index = 14

\* Trit g of the stream held by the bytes of a buffer: base-3 digit g mod 5
\* of byte g div 5.
StreamTrit(bytes, g) == unpack_trits(bytes[(g \div 5) + 1])[(g % 5) + 1]

\* The trits_per_val trits of element i (0-based) in that stream.
ElementTrits(bytes, i, trits_per_val) ==
    [j \in 1..trits_per_val |-> StreamTrit(bytes, i * trits_per_val + j - 1)]

\* C12: every read of packed[] by ternary_to_float_matrix is at an index
\* below packed_size and below calculate_packed_size; with a packed_size
\* above calculate_packed_size the call succeeds, reads the first
\* calculate_packed_size bytes and nothing else, and decodes what these
\* bytes alone hold; with valid arguments it fails only when packed_size
\* is below calculate_packed_size.
C12_DecodeInputBounds ==
    LET required == MxRequired
    IN /\ \A k \in 1..Len(h_reads) :
             /\ h_reads[k] = k - 1
             /\ h_reads[k] < d_packed_size
             /\ h_reads[k] < required
       /\ (mx_pc = "dec_done" /\ MxValid /\ d_ret = -1)
             => d_packed_size < required
       /\ (mx_pc = "dec_done" /\ MxValid /\ d_packed_size > required)
             => /\ d_ret = 0
                /\ Len(h_reads) = required
                /\ \A i \in 1..Len(d_matrix) :
                      /\ d_matrix[i].w
                      /\ d_matrix[i].v =
                            balanced_ternary_to_float(
                                ElementTrits(SubSeq(mx_packed, 1, required),
                                             i - 1, mx_tpv),
                                FALSE, mx_tpv, build).val

\* The 3x3 matrix at 8 trits per value was decoded from a buffer of 16
\* bytes, one more than required: 15 reads, the last at index 14.
C12_Witness ==
    /\ mx_pc = "dec_done" /\ d_ret = 0
    /\ mx_rows = 3 /\ mx_cols = 3 /\ mx_tpv = 8
    /\ d_packed_size = 16 /\ Len(mx_packed) = 16
    /\ Len(h_reads) = 15 /\ h_reads[15] = 14
    /\ d_matrix[9].w

\* C13: for every byte 0..255, unpack_trits writes five trits, each in
\* {-1, 0, +1}; for a byte in 0..242 the trit at position j is
\* ((byte div 3^j) mod 3) - 1, position 0 first.
C13_UnpackTotal ==
    (pk_pc = "unpacked")
    => /\ Len(pk_out) = 5
       /\ \A j \in 0..4 :
             /\ pk_out[j + 1] \in Trits
             /\ (pk_byte <= 242) =>
                    pk_out[j + 1] = ((pk_byte \div 3^j) % 3) - 1

\* The byte 255, which no quintuple packs to, was unpacked.
C13_Witness ==
    /\ pk_pc = "unpacked" /\ pk_in = <<>> /\ pk_byte = 255
    /\ pk_out = <<-1, 0, 0, -1, -1>>

\* Sum of trits[i] * 3^i over the trits from position i (1-based) on.
RECURSIVE TritSum(_, _)
TritSum(trits, i) ==
    IF i > Len(trits) THEN 0
    ELSE trits[i] + 3 * TritSum(trits, i + 1)

\* C14: for n >= 1 and -(3^n-1)/2 <= k <= (3^n-1)/2, the digit loop of
\* float_to_balanced_ternary writes n trits, each in {-1, 0, +1}, whose
\* sum of trit[i] * 3^i is k, and leaves k = 0.
C14_ExactDigitExtraction ==
    (dg_pc = "done")
    => /\ Len(dg_trits) = dg_num_trits
       /\ \A i \in 1..Len(dg_trits) : dg_trits[i] \in Trits
       /\ TritSum(dg_trits, 1) = dg_k
       /\ dg_residual = 0

\* The trits float_to_balanced_ternary writes for matrix element i (0-based).
ScalarTritsOf(i) ==
    float_to_balanced_ternary(mx_matrix[i + 1], FALSE, mx_tpv, <<>>, build).trits

\* C15: after a successful float_matrix_to_ternary, trit j of the scalar
\* encoding of element i is base-3 digit (i * trits_per_val + j) mod 5 of
\* byte (i * trits_per_val + j) div 5, for every element and every j; the
\* digit positions of the last byte after the final trit hold trit 0; and
\* each time ternary_to_float_matrix calls balanced_ternary_to_float, its
\* trits are those the scalar encoder produced for that element.
C15_TritStreamLayout ==
    /\ (mx_pc = "enc_done" /\ e_ret = 0 /\ MxValid)
          => /\ \A i \in 0..(mx_rows * mx_cols - 1) :
                   ElementTrits(mx_packed, i, mx_tpv) = ScalarTritsOf(i)
             /\ PaddingReadsZero
    /\ (mx_pc = "dec_store" /\ e_ret = 0 /\ MxValid)
          => d_trits = ScalarTritsOf(d_i)

\* Decoding the 3x3 matrix at 8 trits per value has collected the trits of
\* element 1 (-0.5), which lie in bytes 1, 2 and 3 of the buffer.
C15_Witness ==
    /\ mx_pc = "dec_store" /\ e_ret = 0
    /\ mx_rows = 3 /\ mx_cols = 3 /\ mx_tpv = 8
    /\ mx_matrix[2] = F(-(2^23), -24)
    /\ d_i = 1 /\ d_packed_index = 4
    /\ d_trits = ScalarTritsOf(1)
    /\ d_trits = ElementTrits(mx_packed, 1, 8)

\* What C16 says of the calls other than a nrioc_submit that finds the
\* driver BUSY or UNINITIALIZED: NR_OK from nrioc_submit only from IDLE and
\* with BUSY after it; nrioc_wait on BUSY returns NR_OK with IDLE after it
\* and never returns NR_TIMEOUT; IDLE after a nrioc_load_weights or
\* nrioc_compute that returns NR_OK; NR_STATE_ERROR never.
DriverProtocol ==
    /\ g_driver.state \in {NR_STATE_UNINITIALIZED, NR_STATE_IDLE, NR_STATE_BUSY}
    /\ (drv_call = "nrioc_submit" /\ drv_ret = NR_OK)
          => /\ drv_prev.state = NR_STATE_IDLE
             /\ g_driver.state = NR_STATE_BUSY
    /\ (drv_call = "nrioc_wait")
          => /\ drv_ret # NR_TIMEOUT
             /\ (drv_prev.state = NR_STATE_BUSY)
                   => (drv_ret = NR_OK /\ g_driver.state = NR_STATE_IDLE)
    /\ (drv_call \in {"nrioc_load_weights", "nrioc_compute"} /\ drv_ret = NR_OK)
          => g_driver.state = NR_STATE_IDLE

\* C16 as stated: the protocol above, and every nrioc_submit on a BUSY
\* driver returns NR_BUSY and every nrioc_submit on an UNINITIALIZED driver
\* returns NR_NO_DEVICE, state and last_command_time unchanged.
C16_SubmitWaitProtocol ==
    /\ DriverProtocol
    /\ (drv_call = "nrioc_submit" /\ drv_prev.state = NR_STATE_BUSY)
          => /\ drv_ret = NR_BUSY
             /\ g_driver.state = drv_prev.state
             /\ g_driver.last_command_time = drv_prev.last_command_time
    /\ (drv_call = "nrioc_submit" /\ drv_prev.state = NR_STATE_UNINITIALIZED)
          => /\ drv_ret = NR_NO_DEVICE
             /\ g_driver.state = drv_prev.state
             /\ g_driver.last_command_time = drv_prev.last_command_time

\* C16, amended: a nrioc_submit with a non-NULL cmd returns NR_BUSY on a
\* BUSY driver and NR_NO_DEVICE on an UNINITIALIZED one; with cmd == NULL
\* it returns NR_INVALID_PARAM in every state; in all these cases state and
\* last_command_time are unchanged.  The rest of the protocol is as stated.
C16_SubmitWaitProtocolNonNull ==
    /\ DriverProtocol
    /\ (drv_call = "nrioc_submit" /\ ~drv_ptr_null
            /\ drv_prev.state = NR_STATE_BUSY)
          => (drv_ret = NR_BUSY /\ g_driver = drv_prev)
    /\ (drv_call = "nrioc_submit" /\ ~drv_ptr_null
            /\ drv_prev.state = NR_STATE_UNINITIALIZED)
          => (drv_ret = NR_NO_DEVICE /\ g_driver = drv_prev)
    /\ (drv_call = "nrioc_submit" /\ drv_ptr_null)
          => (drv_ret = NR_INVALID_PARAM /\ g_driver = drv_prev)

\* A second nrioc_submit found the driver BUSY from a submit at time 2 and
\* was refused with NR_BUSY.
C16_Witness ==
    /\ drv_call = "nrioc_submit" /\ ~drv_ptr_null
    /\ drv_prev.state = NR_STATE_BUSY /\ drv_prev.last_command_time = 2
    /\ drv_ret = NR_BUSY
    /\ g_driver.state = NR_STATE_BUSY /\ g_driver.last_command_time = 2

====
